---- MODULE Spec2Model ----
(***************************************************************************)
(* Model of the analysis engine of src/src/helpers.py: the quality         *)
(* inspector (validate_dataframe, get_data_quality_summary,                *)
(* handle_missing_values), the aggregation and segmentation operations     *)
(* (calculate_acceptance_rate, compare_segments, create_frequency_segments)*)
(* the time analyses (analyze_time_expiration, analyze_time_patterns) and  *)
(* the encoder (convert_categorical_to_numeric); and of the environment    *)
(* setup script src/src/setup.py (main and the functions it calls).        *)
(*                                                                         *)
(* A table (pandas DataFrame) is a sequence of rows; a row is a record of  *)
(* its cells.  Object (string) columns hold strings, a missing cell is the *)
(* marker NA.  Float results are Num(v) or NaN; a rate is kept in          *)
(* hundredths of a percent, so 50.0 % is Num(5000) and 33.33 % is          *)
(* Num(3333): rounding to 2 decimals is rounding to an integer here.       *)
(***************************************************************************)
EXTENDS Integers, Sequences, FiniteSets, TLC

\* Largest number of rows of a table.
MaxRows == 3

\* The missing-value marker of an object column (NaN / None in pandas).
NA == "<NA>"

\* A float that is not a number, and a float holding v.
NaN == [nan |-> TRUE]
Num(v) == [nan |-> FALSE, v |-> v]

\* The columns of the coupon table that the model carries, in the order of
\* the data file, with the dtype pandas.read_csv gives them: Y is the 0/1
\* target, the others are strings, Bar (a visit-frequency column) has
\* missing cells.
Columns == <<"time", "coupon", "expiration", "Bar", "Y">>
Dtype == [time |-> "object", coupon |-> "object", expiration |-> "object",
          Bar |-> "object", Y |-> "int64"]
ColumnSet == {Columns[j] : j \in 1..Len(Columns)}
CouponValues == {"Bar", "Coffee House"}
BarValues == {"never", "gt8", NA}
TimeValues == {"7AM", "10AM"}
ExpirationValues == {"1d", "2h"}

\* Tables whose rows differ in target, coupon and visit frequency (one time
\* of day, one expiration).
Rows == [time : {"10AM"}, coupon : CouponValues, expiration : {"1d"},
         Bar : BarValues, Y : {0, 1}]
Tables == UNION {[1..n -> Rows] : n \in 0..MaxRows}

\* Tables whose rows differ in target, coupon, time of day and expiration
\* (one visit frequency).
TimeRows == [time : TimeValues, coupon : CouponValues, expiration : ExpirationValues,
             Bar : {"never"}, Y : {0, 1}]
TimeTables == UNION {[1..n -> TimeRows] : n \in 0..MaxRows}

\* The tables of fewer than MaxRows rows.
SmallTables == {t \in Tables : Len(t) < MaxRows}
SmallTimeTables == {t \in TimeTables : Len(t) < MaxRows}

\* Python's str ordering (code points) of the strings that occur as cells.
Collation == <<"10AM", "10PM", "1d", "2PM", "2h", "6PM", "7AM",
               "Bar", "Coffee House", "gt8", "less1", "never">>
Rank(s) == CHOOSE i \in 1..Len(Collation) : Collation[i] = s

\* df: the caller's table.  call: the engine operation that was invoked on it
\* with its arguments (op "none" before the call).  ret: what it returned, a
\* record with one field per returned object, named as in the code.
\* A call that raises returns nothing: ret then holds the exception only.
\* The operations are pure and share no state, so a behaviour is one table
\* and one invocation on it.
VARIABLES df, call, ret

\* The setup script.  pc: the statement of main (or of the function it has
\* called) that runs next, "idle" while the script is not run.  env: what
\* the script finds and changes on the machine (the interpreter, the
\* requirements file, the importable packages).  run: the locals of the
\* script, its exit status, and the calls it has made so far.
VARIABLES pc, env, run
setup_vars == <<pc, env, run>>
engine_vars == <<df, call, ret>>
vars == <<df, call, ret, pc, env, run>>

\* The outcome of a call that raises: the exception class and what it names.
Raised(exception, about) == [raised |-> exception, about |-> about]

\* The table argument of an operation that checks it: the caller's table,
\* None, or an object that is no DataFrame.
TableArgs == {"DataFrame", "None", "list"}

\* InvalidInput with the isinstance check left out.
InvalidInputNoneOnly(arg) ==
    IF arg = "None" THEN "is None" ELSE "ok"

\* if df is None: raise ValueError(...)
\* if not isinstance(df, pd.DataFrame): raise ValueError(...)
InvalidInput(arg) ==
    IF arg = "None" THEN "is None"
    ELSE IF arg # "DataFrame" THEN "is not a DataFrame"
    ELSE "ok"

\* The target_col argument: the target column, or a name the table lacks.
TargetCols == {"Y", "Accepted"}

\* LookupFails that only fails when there is a row to read.
LookupFailsOnRows(table, column) == column \notin ColumnSet /\ table # <<>>

\* table[column] raises KeyError when the table has no such column, whatever
\* its number of rows (selecting rows keeps the columns).
LookupFails(table, column) == column \notin ColumnSet

\* CallerTable with the working table sharing the caller's data.
CallerTableAliased(original, working) == working

\* The caller's table after an operation has assigned into working, which
\* it made with original.copy(): a deep copy, so the caller's table keeps
\* its cells.
CallerTable(original, working) == original

----------------------------------------------------------------------------
\* Helpers on tables

RECURSIVE SumY(_)
\* df[target_col].sum(): the sum of the target column (0 on no rows).
SumY(rows) ==
    IF rows = <<>> THEN 0 ELSE Head(rows).Y + SumY(Tail(rows))

Abs(x) == IF x < 0 THEN -x ELSE x

\* Round2Pct with the rate cut to 2 decimals instead of rounded.
Round2PctTruncated(a, t) ==
    IF t = 0 THEN NaN ELSE Num((10000 * a) \div t)

\* numpy's round(x, 2) of the percentage 100 * a / t, in hundredths: the
\* nearest integer to 10000 * a / t, an exact half going to the even one;
\* 0 / 0 is NaN (numpy warns and does not raise).
Round2Pct(a, t) ==
    IF t = 0 THEN NaN
    ELSE LET q == (10000 * a) \div t
             r == (10000 * a) % t
         IN  IF 2 * r < t THEN Num(q)
             ELSE IF 2 * r > t THEN Num(q + 1)
             ELSE IF q % 2 = 0 THEN Num(q) ELSE Num(q + 1)

----------------------------------------------------------------------------
\* calculate_acceptance_rate

\* The group_by argument: None, one column name, or a list of column names.
GroupBys ==
    {[kind |-> "None"]}
    \cup {[kind |-> "str", name |-> c] : c \in {"coupon", "Bar", "time"}}
    \cup {[kind |-> "list", names |-> l] :
            l \in {<<"coupon">>, <<"Bar">>, <<"coupon", "Bar">>, <<"Bar", "coupon">>}}

\* if isinstance(group_by, str): group_by = [group_by]
AsList(group_by) ==
    IF group_by.kind = "str" THEN <<group_by.name>> ELSE group_by.names

\* The group key of a row: its cells in the key columns.
KeyOf(row, names) == [j \in 1..Len(names) |-> row[names[j]]]

\* groupby drops a row whose key has a missing cell (dropna=True, the default).
HasNA(key) == \E j \in 1..Len(key) : key[j] = NA

\* Lexicographic order of two keys of the same length.
KeyLess(a, b) ==
    \E j \in 1..Len(a) :
        /\ Rank(a[j]) < Rank(b[j])
        /\ \A i \in 1..(j - 1) : a[i] = b[i]

RECURSIVE SortKeysDescending(_)
\* SortKeys in descending order.
SortKeysDescending(S) ==
    IF S = {} THEN <<>>
    ELSE LET m == CHOOSE x \in S : \A y \in S \ {x} : KeyLess(y, x)
         IN  <<m>> \o SortKeysDescending(S \ {m})

RECURSIVE SortKeys(_)
\* The keys of a set in ascending order (groupby sort=True, the default).
SortKeys(S) ==
    IF S = {} THEN <<>>
    ELSE LET m == CHOOSE x \in S : \A y \in S \ {x} : KeyLess(x, y)
         IN  <<m>> \o SortKeys(S \ {m})

\* The keys groupby makes groups for.
GroupKeys(rows, names) ==
    {KeyOf(rows[i], names) : i \in {k \in 1..Len(rows) : ~HasNA(KeyOf(rows[k], names))}}

\* The rows of one group, in table order.
GroupRows(rows, names, key) ==
    SelectSeq(rows, LAMBDA r : KeyOf(r, names) = key)

\* StatsRow with the 'sum' and the declined count taken for each other.
StatsRowSwapped(key, rows) ==
    [key |-> key,
     Total |-> Len(rows),
     Accepted |-> Len(rows) - SumY(rows),
     Declined |-> SumY(rows),
     Rate |-> Round2Pct(SumY(rows), Len(rows))]

\* One row of the result: agg(['sum', 'count', 'mean']), Declined, the rate.
StatsRow(key, rows) ==
    [key |-> key,
     Total |-> Len(rows),
     Accepted |-> SumY(rows),
     Declined |-> Len(rows) - SumY(rows),
     Rate |-> Round2Pct(SumY(rows), Len(rows))]

\* The result table of calculate_acceptance_rate.
AcceptanceRate(rows, group_by) ==
    IF group_by.kind = "None"
    THEN <<StatsRow(<<>>, rows)>>
    ELSE LET names == AsList(group_by)
             keys == SortKeys(GroupKeys(rows, names))
         IN  [k \in 1..Len(keys) |-> StatsRow(keys[k], GroupRows(rows, names, keys[k]))]

calculate_acceptance_rate ==
    \E group_by \in GroupBys, target_col \in TargetCols :
        /\ call.op = "none"
        /\ UNCHANGED setup_vars
        /\ call' = [op |-> "calculate_acceptance_rate", group_by |-> group_by,
                    target_col |-> target_col]
        /\ ret' = IF LookupFails(df, target_col)
                  THEN Raised("KeyError", target_col)
                  ELSE [stats |-> AcceptanceRate(df, group_by)]
        /\ UNCHANGED df

----------------------------------------------------------------------------
\* compare_segments

\* The boolean Series aligned to the table: one truth value per row.
Conditions(rows) == [1..Len(rows) -> BOOLEAN]

\* Invert with the negation left out.
InvertDropped(condition) == condition

\* ~condition
Invert(condition) == [i \in 1..Len(condition) |-> ~condition[i]]

RECURSIVE MaskIndex(_, _)
\* The row positions a boolean mask keeps, ascending.
MaskIndex(condition, i) ==
    IF i > Len(condition) THEN <<>>
    ELSE (IF condition[i] THEN <<i>> ELSE <<>>) \o MaskIndex(condition, i + 1)

\* df[condition]: the rows where the mask is true, in table order.
BoolIndex(rows, condition) ==
    LET idx == MaskIndex(condition, 1)
    IN  [k \in 1..Len(idx) |-> rows[idx[k]]]

\* SegmentRate without the guard on an empty segment.
SegmentRateUnguarded(accepted, total) == Round2Pct(accepted, total)

\* round((accepted / total) * 100, 2) if total > 0 else 0
SegmentRate(accepted, total) ==
    IF total > 0 THEN Round2Pct(accepted, total) ELSE Num(0)

\* One entry of results for a segment.
SegmentRow(name, segment) ==
    [Segment |-> name,
     Total |-> Len(segment),
     Accepted |-> SumY(segment),
     Declined |-> Len(segment) - SumY(segment),
     Rate |-> SegmentRate(SumY(segment), Len(segment))]

\* Float subtraction: NaN if either side is NaN.
FloatSub(a, b) == IF a.nan \/ b.nan THEN NaN ELSE Num(a.v - b.v)
FloatNeg(a) == IF a.nan THEN NaN ELSE Num(-a.v)

\* RateDifferenceColumn with the same value on both rows.
RateDifferenceColumnSameSign(rate_diff) == <<rate_diff, rate_diff>>

\* result_df['Rate Difference (pp)'] = [rate_diff, -rate_diff]
RateDifferenceColumn(rate_diff) == <<rate_diff, FloatNeg(rate_diff)>>

\* The result table of compare_segments.
CompareSegments(rows, condition, segment_names) ==
    LET results == <<SegmentRow(segment_names[1], BoolIndex(rows, condition)),
                     SegmentRow(segment_names[2], BoolIndex(rows, Invert(condition)))>>
        rate_diff == FloatSub(results[1].Rate, results[2].Rate)
        diffs == RateDifferenceColumn(rate_diff)
    IN  [k \in 1..2 |->
            [Segment |-> results[k].Segment,
             Total |-> results[k].Total,
             Accepted |-> results[k].Accepted,
             Declined |-> results[k].Declined,
             Rate |-> results[k].Rate,
             RateDifference |-> diffs[k]]]

\* The default segment_names.
DefaultSegmentNames == <<"Target Group", "All Others">>

\* segment[target_col] is read for the target segment, then for the others.
compare_segments ==
    \E condition \in Conditions(df), target_col \in TargetCols :
        /\ call.op = "none"
        /\ UNCHANGED setup_vars
        /\ call' = [op |-> "compare_segments", condition |-> condition,
                    target_col |-> target_col]
        /\ ret' = IF \/ LookupFails(BoolIndex(df, condition), target_col)
                     \/ LookupFails(BoolIndex(df, Invert(condition)), target_col)
                  THEN Raised("KeyError", target_col)
                  ELSE [result_df |-> CompareSegments(df, condition, DefaultSegmentNames)]
        /\ UNCHANGED df

----------------------------------------------------------------------------
\* create_frequency_segments

\* The thresholds argument: a dict, kept in insertion order, from a segment
\* label to the list of raw values it absorbs.  The lists may overlap.
ThresholdChoices ==
    {<<>>,
     <<[segment |-> "Low", values |-> {"never", "less1"}],
       [segment |-> "High", values |-> {"1~3", "4~8", "gt8"}]>>,
     <<[segment |-> "Low", values |-> {"never", "gt8"}],
       [segment |-> "High", values |-> {"gt8"}]>>,
     <<[segment |-> "High", values |-> {"gt8"}],
       [segment |-> "Low", values |-> {"never", "gt8"}]>>,
     <<[segment |-> "Never", values |-> {"never"}],
       [segment |-> "Empty", values |-> {}]>>}

RECURSIVE map_value_last(_, _)
\* map_value that keeps scanning and returns the last segment that matches.
map_value_last(thresholds, val) ==
    IF thresholds = <<>> THEN "Unknown"
    ELSE LET later == map_value_last(Tail(thresholds), val)
         IN  IF later # "Unknown" THEN later
             ELSE IF val \in Head(thresholds).values THEN Head(thresholds).segment
             ELSE "Unknown"

RECURSIVE map_value(_, _)
\* for segment, values in thresholds.items(): if val in values: return segment
\* return 'Unknown'
map_value(thresholds, val) ==
    IF thresholds = <<>> THEN "Unknown"
    ELSE IF val \in Head(thresholds).values THEN Head(thresholds).segment
    ELSE map_value(Tail(thresholds), val)

\* df[column].apply(map_value): one label per row, in row order.
FrequencySegments(rows, column, thresholds) ==
    [i \in 1..Len(rows) |-> map_value(thresholds, rows[i][column])]

create_frequency_segments ==
    \E thresholds \in ThresholdChoices :
        /\ call.op = "none"
        /\ UNCHANGED setup_vars
        /\ call' = [op |-> "create_frequency_segments", column |-> "Bar",
                    thresholds |-> thresholds]
        /\ ret' = [segments |-> FrequencySegments(df, "Bar", thresholds)]
        /\ UNCHANGED df

----------------------------------------------------------------------------
\* convert_categorical_to_numeric

\* pd.api.types.is_numeric_dtype(col_data) or pd.api.types.is_bool_dtype(col_data)
IsNumericOrBool(column) == Dtype[column] \in {"int64", "float64", "bool"}

\* The columns the loop encodes.
EncodedColumns == {c \in ColumnSet : ~IsNumericOrBool(c)}

\* The cells of one column, in row order.
ColumnOf(rows, column) == [i \in 1..Len(rows) |-> rows[i][column]]

\* The number of cells of a column equal to v.
CountOf(col, v) == Cardinality({i \in 1..Len(col) : col[i] = v})

\* The distinct non-null values of a column.
DistinctValues(col) == {col[i] : i \in 1..Len(col)} \ {NA}

\* col_data.value_counts().index.tolist(): the distinct non-null values by
\* descending count.  value_counts sorts the counts with sort_values'
\* default kind, quicksort, which is not a stable sort: the order of values
\* whose counts are equal is whatever the numpy build gives.
ValueCountsOrders(col) ==
    LET S == DistinctValues(col)
        n == Cardinality(S)
    IN  {o \in [1..n -> S] :
            /\ \A i, j \in 1..n : i # j => o[i] # o[j]
            /\ \A i, j \in 1..n : i < j => CountOf(col, o[i]) >= CountOf(col, o[j])}

\* {value: idx + 1 for idx, value in enumerate(unique_values)}
ValueToNumeric(unique_values) ==
    [v \in {unique_values[i] : i \in 1..Len(unique_values)} |->
        CHOOSE i \in 1..Len(unique_values) : unique_values[i] = v]

\* MapCell with a missing cell filled with code 0.
MapCellFillsZero(value_to_numeric, cell) ==
    IF cell \in DOMAIN value_to_numeric THEN Num(value_to_numeric[cell]) ELSE Num(0)

\* Series.map(dict) on one cell, then pd.to_numeric(errors='coerce'): a value
\* that is no key of the dict (a null is none) becomes NaN.
MapCell(value_to_numeric, cell) ==
    IF cell \in DOMAIN value_to_numeric THEN Num(value_to_numeric[cell]) ELSE NaN

\* DfNumeric with the skipped columns out of line with the encoded ones:
\* their cells come back in reverse row order.
DfNumericMisaligned(rows, value_mappings) ==
    [i \in 1..Len(rows) |->
        [c \in DOMAIN rows[i] |->
            IF c \in DOMAIN value_mappings
            THEN MapCell(value_mappings[c], rows[i][c])
            ELSE rows[Len(rows) + 1 - i][c]]]

\* The returned table: encoded columns mapped, the others as they were.
DfNumeric(rows, value_mappings) ==
    [i \in 1..Len(rows) |->
        [c \in DOMAIN rows[i] |->
            IF c \in DOMAIN value_mappings
            THEN MapCell(value_mappings[c], rows[i][c])
            ELSE rows[i][c]]]

RECURSIVE UniqueValueChoicesOver(_, _)
\* Every result value_counts can give for a set of columns, one order each.
UniqueValueChoicesOver(rows, columns) ==
    IF columns = {} THEN {<<>>}
    ELSE LET c == CHOOSE x \in columns : TRUE
         IN  {(c :> o) @@ u : o \in ValueCountsOrders(ColumnOf(rows, c)),
                              u \in UniqueValueChoicesOver(rows, columns \ {c})}

\* Every result value_counts can give for the encoded columns.
UniqueValueChoices(rows) == UniqueValueChoicesOver(rows, EncodedColumns)

\* The argument is checked first; df_numeric is a copy of it, and the loop
\* assigns the encoded columns into df_numeric.
convert_categorical_to_numeric ==
    \E data_frame \in TableArgs, unique_values \in UniqueValueChoices(df) :
        LET value_mappings == [c \in EncodedColumns |-> ValueToNumeric(unique_values[c])]
            df_numeric == DfNumeric(df, value_mappings)
        IN  /\ call.op = "none"
            /\ UNCHANGED setup_vars
            /\ call' = [op |-> "convert_categorical_to_numeric", data_frame |-> data_frame]
            /\ IF InvalidInput(data_frame) # "ok"
               THEN /\ ret' = Raised("ValueError", InvalidInput(data_frame))
                    /\ UNCHANGED df
               ELSE /\ ret' = [df_numeric |-> df_numeric, value_mappings |-> value_mappings]
                    /\ df' = CallerTable(df, df_numeric)

----------------------------------------------------------------------------
\* validate_dataframe

\* The required_columns argument: None or a list of column names ('car' is
\* the column load_data drops, 'direction_opp' one the model does not carry).
RequiredColumnsChoices ==
    {[kind |-> "None"]}
    \cup {[kind |-> "list", names |-> l] :
            l \in {<<>>, <<"Y", "coupon">>, <<"Y", "car">>, <<"car", "direction_opp">>}}

\* MissingCols that looks at the first required column only.
MissingColsFirstOnly(required_columns) ==
    IF required_columns.kind = "list" /\ required_columns.names # <<>>
    THEN {required_columns.names[1]} \ ColumnSet
    ELSE {}

\* if required_columns: missing_cols = set(required_columns) - set(df.columns)
\* (None and the empty list are both false).
MissingCols(required_columns) ==
    IF required_columns.kind = "list" /\ required_columns.names # <<>>
    THEN {required_columns.names[j] : j \in 1..Len(required_columns.names)} \ ColumnSet
    ELSE {}

\* df[col].isnull().sum(): only an object column holds missing cells.
NullCount(rows, column) ==
    IF Dtype[column] = "object"
    THEN Cardinality({i \in 1..Len(rows) : rows[i][column] = NA})
    ELSE 0

\* (null_count / len(df)) * 100 > limit.  On no rows the quotient is 0 / 0,
\* NaN, and every comparison with NaN is false.
NullPctAbove(null_count, total, limit) ==
    total > 0 /\ 100 * null_count > limit * total

\* if null_pct > 50: warnings.append(...)  elif null_pct > 90: errors.append(...)
NullLevel(null_count, total) ==
    IF NullPctAbove(null_count, total, 50) THEN "warning"
    ELSE IF NullPctAbove(null_count, total, 90) THEN "error"
    ELSE "none"

\* The columns, in column order, whose null level is the given one.
ColumnsAtLevel(rows, level) ==
    SelectSeq(Columns, LAMBDA c : NullLevel(NullCount(rows, c), Len(rows)) = level)

\* df.duplicated().sum(): the rows equal to an earlier row.
DuplicateRows(rows) ==
    Cardinality({i \in 1..Len(rows) : \E j \in 1..(i - 1) : rows[j] = rows[i]})

\* The report of validate_dataframe (memory_usage_mb is left out).
ValidationReport(rows, required_columns) ==
    LET missing_cols == MissingCols(required_columns)
        high == ColumnsAtLevel(rows, "error")
        warn == ColumnsAtLevel(rows, "warning")
    IN  [is_valid |-> missing_cols = {},
         errors |-> (IF missing_cols # {}
                     THEN <<[kind |-> "missing_required", columns |-> missing_cols]>>
                     ELSE <<>>)
                    \o [k \in 1..Len(high) |-> [kind |-> "high_null", column |-> high[k]]],
         warnings |-> [k \in 1..Len(warn) |-> [kind |-> "high_null", column |-> warn[k]]],
         summary |-> [total_rows |-> Len(rows),
                      total_columns |-> Len(Columns),
                      duplicate_rows |-> DuplicateRows(rows)],
         missing_data |-> [c \in ColumnSet |->
                              [null_count |-> NullCount(rows, c),
                               null_percentage |-> Round2Pct(NullCount(rows, c), Len(rows))]],
         column_types |-> Dtype]

\* The argument is checked before the report is built.
validate_dataframe ==
    \E df_arg \in TableArgs, required_columns \in RequiredColumnsChoices :
        /\ call.op = "none"
        /\ UNCHANGED setup_vars
        /\ call' = [op |-> "validate_dataframe", df |-> df_arg,
                    required_columns |-> required_columns]
        /\ ret' = IF InvalidInput(df_arg) # "ok"
                  THEN Raised("ValueError", InvalidInput(df_arg))
                  ELSE [report |-> ValidationReport(df, required_columns)]
        /\ UNCHANGED df

----------------------------------------------------------------------------
\* get_data_quality_summary

\* col_data.dropna().iloc[0] if len(col_data.dropna()) > 0 else None
SampleValue(rows, column) ==
    LET present == SelectSeq(rows, LAMBDA r : Dtype[column] # "object" \/ r[column] # NA)
    IN  IF Len(present) > 0
        THEN [none |-> FALSE, value |-> present[1][column]]
        ELSE [none |-> TRUE]

\* One row of the summary per column, in column order.
QualitySummary(rows) ==
    [k \in 1..Len(Columns) |->
        LET col == Columns[k]
            null_count == NullCount(rows, col)
        IN  [Column |-> col,
             DataType |-> Dtype[col],
             NonNullCount |-> Len(rows) - null_count,
             NullCount |-> null_count,
             NullPct |-> Round2Pct(null_count, Len(rows)),
             UniqueValues |-> Cardinality({rows[i][col] : i \in 1..Len(rows)}
                                          \ (IF Dtype[col] = "object" THEN {NA} ELSE {})),
             SampleValue |-> SampleValue(rows, col)]]

get_data_quality_summary ==
    /\ call.op = "none"
    /\ UNCHANGED setup_vars
    /\ call' = [op |-> "get_data_quality_summary"]
    /\ ret' = [quality_data |-> QualitySummary(df)]
    /\ UNCHANGED df

----------------------------------------------------------------------------
\* handle_missing_values

\* The strategy argument: the four documented names and one that is none of
\* them.
Strategies == {"report", "drop_columns", "drop_rows", "fill", "median"}

\* The threshold argument in percent: 0.0, 0.1, 0.5 (the default) and 1.0,
\* values on which the float results of the code are those of the integer
\* arithmetic here (5 * (1 - 0.1) is 4.5 in floats too).
DropThresholds == {0, 10, 50, 100}
DefaultThreshold == 50

\* The fill_values argument: None (the default), or a dict from a column
\* name to the value that replaces its missing cells.
FillValuesChoices ==
    {[kind |-> "None"],
     [kind |-> "dict", items |-> <<[col |-> "Bar", value |-> "never"]>>],
     [kind |-> "dict", items |-> <<[col |-> "car", value |-> "unknown"]>>]}

\* {col: df[col].isnull().sum() for col in df.columns}
MissingReport(rows) == [c \in ColumnSet |-> NullCount(rows, c)]

\* BranchTaken with the last branch taken by every other strategy.
BranchTakenElseFill(strategy, fill_values) ==
    IF strategy = "drop_columns" THEN "drop_columns"
    ELSE IF strategy = "drop_rows" THEN "drop_rows"
    ELSE IF fill_values.kind = "dict" /\ fill_values.items # <<>> THEN "fill"
    ELSE "none"

\* if strategy == 'drop_columns' ... elif strategy == 'drop_rows' ...
\* elif strategy == 'fill' and fill_values ...: the branch that runs.
BranchTaken(strategy, fill_values) ==
    IF strategy = "drop_columns" THEN "drop_columns"
    ELSE IF strategy = "drop_rows" THEN "drop_rows"
    ELSE IF strategy = "fill" /\ fill_values.kind = "dict" /\ fill_values.items # <<>>
         THEN "fill"
    ELSE "none"

\* [col for col in df.columns if df[col].isnull().sum() / len(df) > threshold]
\* (0 / 0 on no rows is NaN, which is above nothing).
ColsToDrop(rows, threshold) ==
    {c \in ColumnSet :
        Len(rows) > 0 /\ 100 * NullCount(rows, c) > threshold * Len(rows)}

\* df_clean.drop(columns=cols_to_drop)
DropColumns(rows, cols_to_drop) ==
    [columns |-> SelectSeq(Columns, LAMBDA c : c \notin cols_to_drop),
     rows |-> [i \in 1..Len(rows) |-> [c \in ColumnSet \ cols_to_drop |-> rows[i][c]]]]

\* int(len(df.columns) * (1 - threshold))
Thresh(threshold) == (Len(Columns) * (100 - threshold)) \div 100

\* The number of cells of a row that are not missing.
NonNullCells(row) ==
    Cardinality({c \in ColumnSet : Dtype[c] # "object" \/ row[c] # NA})

\* df_clean.dropna(thresh=...): the rows with at least thresh cells that are
\* not missing, in table order.
DropRows(rows, thresh) ==
    [columns |-> Columns,
     rows |-> SelectSeq(rows, LAMBDA r : NonNullCells(r) >= thresh)]

RECURSIVE FillRows(_, _)
\* for col, value in fill_values.items(): if col in df_clean.columns:
\*     df_clean[col] = df_clean[col].fillna(value)
FillRows(rows, items) ==
    IF items = <<>> THEN rows
    ELSE LET col == Head(items).col
             value == Head(items).value
             filled == IF col \in ColumnSet /\ Dtype[col] = "object"
                       THEN [i \in 1..Len(rows) |->
                               [rows[i] EXCEPT ![col] = IF @ = NA THEN value ELSE @]]
                       ELSE rows
         IN  FillRows(filled, Tail(items))

\* The table handle_missing_values returns for a strategy other than
\* 'report'.
DfClean(rows, strategy, threshold, fill_values) ==
    LET branch == BranchTaken(strategy, fill_values)
    IN  IF branch = "drop_columns" THEN DropColumns(rows, ColsToDrop(rows, threshold))
        ELSE IF branch = "drop_rows" THEN DropRows(rows, Thresh(threshold))
        ELSE IF branch = "fill"
             THEN [columns |-> Columns, rows |-> FillRows(rows, fill_values.items)]
        ELSE [columns |-> Columns, rows |-> rows]

\* 'report' returns before the copy is made.  The other strategies work on
\* df_clean = df.copy(); the two drops rebind df_clean to a new table, the
\* fill assigns columns into it.  threshold is read by the drops only and
\* fill_values by the fill only: the strategies that ignore an argument are
\* called with its default, the unknown strategy with every value.
handle_missing_values ==
    \E strategy \in Strategies, threshold \in DropThresholds,
       fill_values \in FillValuesChoices :
        LET df_clean == DfClean(df, strategy, threshold, fill_values)
        IN  /\ call.op = "none"
            /\ UNCHANGED setup_vars
            /\ strategy \in {"report", "fill"} => threshold = DefaultThreshold
            /\ strategy \in {"report", "drop_columns", "drop_rows"} =>
                  fill_values.kind = "None"
            /\ call' = [op |-> "handle_missing_values", strategy |-> strategy,
                        threshold |-> threshold, fill_values |-> fill_values]
            /\ IF strategy = "report"
               THEN /\ ret' = [missing |-> MissingReport(df)]
                    /\ UNCHANGED df
               ELSE /\ ret' = [df_clean |-> df_clean]
                    /\ df' = IF BranchTaken(strategy, fill_values) = "fill"
                             THEN CallerTable(df, df_clean.rows)
                             ELSE df

----------------------------------------------------------------------------
\* analyze_time_patterns and analyze_time_expiration

\* time_order = ['7AM', '10AM', '2PM', '6PM', '10PM']
time_order == <<"7AM", "10AM", "2PM", "6PM", "10PM">>

\* The coupon_type argument: None, a type of the table, a type that no row
\* has, or the empty string.
CouponTypes ==
    {[kind |-> "None"]}
    \cup {[kind |-> "str", name |-> c] : c \in CouponValues \cup {"Restaurant(<20)", ""}}

\* The truth value of coupon_type in `if coupon_type` and `coupon_type or
\* 'All'`: None and the empty string are false.
Truthy(coupon_type) == coupon_type.kind = "str" /\ coupon_type.name # ""

\* FilterCoupon that never filters.
FilterCouponIgnored(rows, coupon_type) == rows

\* if coupon_type: df = df[df['coupon'] == coupon_type].copy()
FilterCoupon(rows, coupon_type) ==
    IF Truthy(coupon_type)
    THEN SelectSeq(rows, LAMBDA r : r.coupon = coupon_type.name)
    ELSE rows

\* GroupStats with the rate taken over the rows of the whole table.
GroupStatsOverTable(rows, column) ==
    LET keys == SortKeys(GroupKeys(rows, <<column>>))
    IN  [k \in 1..Len(keys) |->
            LET g == GroupRows(rows, <<column>>, keys[k])
            IN  [label |-> keys[k][1],
                 Accepted |-> Num(SumY(g)),
                 Total |-> Num(Len(g)),
                 Rate |-> Round2Pct(SumY(g), Len(rows))]]

\* df.groupby(column)[target_col].agg(['sum', 'count', 'mean']) with the
\* columns renamed and the rate in percent rounded: one row per occurring
\* value, in ascending order of the value.
GroupStats(rows, column) ==
    LET keys == SortKeys(GroupKeys(rows, <<column>>))
    IN  [k \in 1..Len(keys) |->
            LET g == GroupRows(rows, <<column>>, keys[k])
            IN  [label |-> keys[k][1],
                 Accepted |-> Num(SumY(g)),
                 Total |-> Num(Len(g)),
                 Rate |-> Round2Pct(SumY(g), Len(g))]]

\* ReindexStats that orders the rows it has and adds none.
ReindexStatsPresentOnly(stats, labels) ==
    LET present == SelectSeq(labels, LAMBDA l : \E j \in 1..Len(stats) : stats[j].label = l)
    IN  [k \in 1..Len(present) |->
            stats[CHOOSE j \in 1..Len(stats) : stats[j].label = present[k]]]

\* time_stats.reindex(time_order): one row per label of time_order, in that
\* order; a label with no row gets a row of NaN.
ReindexStats(stats, labels) ==
    [k \in 1..Len(labels) |->
        IF \E j \in 1..Len(stats) : stats[j].label = labels[k]
        THEN stats[CHOOSE j \in 1..Len(stats) : stats[j].label = labels[k]]
        ELSE [label |-> labels[k], Accepted |-> NaN, Total |-> NaN, Rate |-> NaN]]

\* The positions of a table of stats whose rate is a number.
RatePositions(stats) == {k \in 1..Len(stats) : ~stats[k].Rate.nan}

\* IdxMax that returns the last position that holds the largest rate.
IdxMaxLast(stats) ==
    CHOOSE k \in RatePositions(stats) :
        /\ \A j \in RatePositions(stats) : stats[k].Rate.v >= stats[j].Rate.v
        /\ \A j \in RatePositions(stats) :
              stats[j].Rate.v = stats[k].Rate.v => k >= j

\* IdxMax that returns the position of the smallest rate.
IdxMaxSmallest(stats) ==
    CHOOSE k \in RatePositions(stats) :
        /\ \A j \in RatePositions(stats) : stats[k].Rate.v <= stats[j].Rate.v
        /\ \A j \in RatePositions(stats) :
              stats[j].Rate.v = stats[k].Rate.v => k <= j

\* Series.idxmax(): the first position, in row order, that holds the largest
\* rate; NaN rates are skipped.
IdxMax(stats) ==
    CHOOSE k \in RatePositions(stats) :
        /\ \A j \in RatePositions(stats) : stats[k].Rate.v >= stats[j].Rate.v
        /\ \A j \in RatePositions(stats) :
              stats[j].Rate.v = stats[k].Rate.v => k <= j

\* Series.idxmin(): the first position that holds the smallest rate.
IdxMin(stats) ==
    CHOOSE k \in RatePositions(stats) :
        /\ \A j \in RatePositions(stats) : stats[k].Rate.v <= stats[j].Rate.v
        /\ \A j \in RatePositions(stats) :
              stats[j].Rate.v = stats[k].Rate.v => k <= j

\* Series.max() and Series.min(): the largest and the smallest rate, NaN
\* rates skipped.
MaxRate(stats) ==
    LET k == CHOOSE k \in RatePositions(stats) :
                 \A j \in RatePositions(stats) : stats[k].Rate.v >= stats[j].Rate.v
    IN  stats[k].Rate
MinRate(stats) ==
    LET k == CHOOSE k \in RatePositions(stats) :
                 \A j \in RatePositions(stats) : stats[k].Rate.v <= stats[j].Rate.v
    IN  stats[k].Rate

\* The best/worst fields.  When every rate is NaN (no row is left) idxmax
\* gives NaN in pandas before 3.0 and raises ValueError from 3.0 on
\* (setup.py asks for pandas>=1.3.0); max() and min() give NaN.
BestWorstOutcomes(time_stats) ==
    IF RatePositions(time_stats) # {}
    THEN {[best_time |-> time_stats[IdxMax(time_stats)].label,
           worst_time |-> time_stats[IdxMin(time_stats)].label,
           best_rate |-> MaxRate(time_stats),
           worst_rate |-> MinRate(time_stats)]}
    ELSE {[raised |-> "ValueError"],
          [best_time |-> NA, worst_time |-> NA, best_rate |-> NaN, worst_rate |-> NaN]}

\* The labels of a column that occur, ascending.
Labels(rows, column) ==
    LET keys == SortKeys(GroupKeys(rows, <<column>>))
    IN  [k \in 1..Len(keys) |-> keys[k][1]]

\* CellMean without the rounding: the mean in percent cut to a whole number
\* of hundredths.
CellMeanTruncated(rows, t, e) ==
    LET cell == SelectSeq(rows, LAMBDA r : r.time = t /\ r.expiration = e)
    IN  Round2PctTruncated(SumY(cell), Len(cell))

\* One cell of crosstab(time, expiration, target, aggfunc='mean') * 100,
\* rounded to 2 decimals: NaN when no row has the combination.
CellMean(rows, t, e) ==
    LET cell == SelectSeq(rows, LAMBDA r : r.time = t /\ r.expiration = e)
    IN  Round2Pct(SumY(cell), Len(cell))

\* pd.crosstab(...) * 100, rounded: a row per occurring time and a column
\* per occurring expiration, both ascending.
Crosstab(rows) ==
    LET times == Labels(rows, "time")
        exps == Labels(rows, "expiration")
    IN  [k \in 1..Len(times) |->
            [label |-> times[k],
             cells |-> [e \in {exps[j] : j \in 1..Len(exps)} |->
                          CellMean(rows, times[k], e)]]]

\* interaction.reindex(time_order): a row of NaN for a label with no row.
ReindexMatrix(matrix, labels, columns) ==
    [k \in 1..Len(labels) |->
        IF \E j \in 1..Len(matrix) : matrix[j].label = labels[k]
        THEN matrix[CHOOSE j \in 1..Len(matrix) : matrix[j].label = labels[k]]
        ELSE [label |-> labels[k], cells |-> [e \in columns |-> NaN]]]

\* The results of analyze_time_patterns but for the best/worst fields.
TimePatterns(rows, coupon_type) ==
    LET filtered == FilterCoupon(rows, coupon_type)
        exps == Labels(filtered, "expiration")
    IN  [coupon_type |-> IF Truthy(coupon_type) THEN coupon_type.name ELSE "All",
         total_records |-> Len(filtered),
         by_time |-> ReindexStats(GroupStats(filtered, "time"), time_order),
         by_expiration |-> GroupStats(filtered, "expiration"),
         time_expiration_matrix |->
             ReindexMatrix(Crosstab(filtered), time_order,
                           {exps[j] : j \in 1..Len(exps)})]

\* The filter rebinds the local name df to a copy of the selected rows;
\* nothing is assigned into the caller's table.
analyze_time_patterns ==
    \E coupon_type \in CouponTypes :
        LET results == TimePatterns(df, coupon_type)
        IN  \E best_worst \in BestWorstOutcomes(results.by_time) :
                /\ call.op = "none"
                /\ UNCHANGED setup_vars
                /\ call' = [op |-> "analyze_time_patterns", coupon_type |-> coupon_type]
                /\ ret' = IF "raised" \in DOMAIN best_worst
                          THEN Raised(best_worst.raised, "idxmax")
                          ELSE [results |-> results, best_worst |-> best_worst]
                /\ UNCHANGED df

\* results['by_time'].sort_values('time') on the ordered categorical: the
\* rows of the occurring times in the order of time_order.
SortByTimeOrder(stats) ==
    LET present == SelectSeq(time_order,
                             LAMBDA t : \E j \in 1..Len(stats) : stats[j].key = <<t>>)
    IN  [k \in 1..Len(present) |->
            stats[CHOOSE j \in 1..Len(stats) : stats[j].key = <<present[k]>>]]

\* The results of analyze_time_expiration.  The categorical column is
\* assigned into the table calculate_acceptance_rate returned, not into the
\* caller's table.
TimeExpiration(rows) ==
    [by_time |-> SortByTimeOrder(AcceptanceRate(rows, [kind |-> "str", name |-> "time"])),
     by_expiration |-> AcceptanceRate(rows, [kind |-> "str", name |-> "expiration"]),
     time_expiration_heatmap |-> Crosstab(rows)]

analyze_time_expiration ==
    /\ call.op = "none"
    /\ UNCHANGED setup_vars
    /\ call' = [op |-> "analyze_time_expiration"]
    /\ ret' = [time_results |-> TimeExpiration(df)]
    /\ UNCHANGED df

----------------------------------------------------------------------------
\* setup.py: the environment check run before the notebook is opened.

\* REQUIRED_PACKAGES, in the dict's insertion order (lines 15-23).
REQUIRED_PACKAGES ==
    << [package_name |-> "pandas",     package_spec |-> "pandas>=1.3.0"],
       [package_name |-> "numpy",      package_spec |-> "numpy>=1.21.0"],
       [package_name |-> "seaborn",    package_spec |-> "seaborn>=0.11.0"],
       [package_name |-> "plotly",     package_spec |-> "plotly>=5.0.0"],
       [package_name |-> "jupyter",    package_spec |-> "jupyter>=1.0.0"],
       [package_name |-> "matplotlib", package_spec |-> "matplotlib>=3.3.0"],
       [package_name |-> "kaleido",    package_spec |-> "kaleido>=0.2.1"] >>

PackageNames == {REQUIRED_PACKAGES[i].package_name : i \in DOMAIN REQUIRED_PACKAGES}

\* At most this many of the required packages are absent when the script starts.
MaxMissing == 3

\* sys.version_info[:2] of the interpreters the script is started with.
PythonVersions == {<<2, 7>>, <<3, 6>>, <<3, 7>>, <<3, 14>>}

min_version == <<3, 7>>

\* Python's ordering of two (major, minor) tuples.
VersionLess(a, b) == a[1] < b[1] \/ (a[1] = b[1] /\ a[2] < b[2])

\* What the user types at a prompt.
Answers == {"y", " Yes ", "YES", "n", "", "yeah"}

\* str.lower on the characters the answers are made of.
LowerChar(c) ==
    CASE c = "Y" -> "y"
      [] c = "E" -> "e"
      [] c = "S" -> "s"
      [] c = "N" -> "n"
      [] OTHER -> c

RECURSIVE Lower(_)
Lower(s) == IF s = "" THEN "" ELSE LowerChar(SubSeq(s, 1, 1)) \o Lower(SubSeq(s, 2, Len(s)))

Whitespace == {" ", "\t", "\n"}

RECURSIVE LStrip(_)
LStrip(s) ==
    IF s # "" /\ SubSeq(s, 1, 1) \in Whitespace THEN LStrip(SubSeq(s, 2, Len(s))) ELSE s

RECURSIVE RStrip(_)
RStrip(s) ==
    IF s # "" /\ SubSeq(s, Len(s), Len(s)) \in Whitespace
    THEN RStrip(SubSeq(s, 1, Len(s) - 1))
    ELSE s

\* input(...).lower().strip()
Response(answer) == RStrip(LStrip(Lower(answer)))

\* response in ['y', 'yes']
SaidYes(response) == response \in {"y", "yes"}

\* The interpreter's environment: env.importable holds the packages for which
\* check_package_installed returns True, env.requirements says whether
\* requirements.txt is absent, was there before the run ("existing") or was
\* written by the script ("generated").
VenvSettings ==
    { [real_prefix |-> FALSE, base_prefix_differs |-> FALSE, VIRTUAL_ENV |-> FALSE],
      [real_prefix |-> TRUE,  base_prefix_differs |-> FALSE, VIRTUAL_ENV |-> FALSE],
      [real_prefix |-> FALSE, base_prefix_differs |-> TRUE,  VIRTUAL_ENV |-> FALSE],
      [real_prefix |-> FALSE, base_prefix_differs |-> FALSE, VIRTUAL_ENV |-> TRUE] }

Environments ==
    { [version |-> v, venv |-> s, requirements |-> r, importable |-> PackageNames \ m] :
        v \in PythonVersions, s \in VenvSettings, r \in {"absent", "existing"},
        m \in {x \in SUBSET PackageNames : Cardinality(x) <= MaxMissing} }

\* The locals of main and check_and_install_packages, the exit status, and the
\* calls made so far, in order.
StartRun ==
    [ response |-> "", install_response |-> "",
      missing_packages |-> <<>>, to_install |-> <<>>, failed_installs |-> <<>>,
      packages_ready |-> "unset", exit_status |-> 0, events |-> <<>> ]

Event(step, arg, result) == [step |-> step, arg |-> arg, result |-> result]

PyBool(b) == IF b THEN "True" ELSE "False"

\* The engine's operations run without the setup script.
SetupIdle ==
    /\ pc = "idle"
    /\ env = [version |-> <<3, 14>>,
              venv |-> [real_prefix |-> FALSE, base_prefix_differs |-> TRUE, VIRTUAL_ENV |-> TRUE],
              requirements |-> "existing", importable |-> PackageNames]
    /\ run = StartRun

\* check_python_version
check_python_version(version) == ~VersionLess(version, min_version)

\* check_virtual_environment
check_virtual_environment(venv) ==
    venv.real_prefix \/ venv.base_prefix_differs \/ venv.VIRTUAL_ENV

\* check_package_installed
check_package_installed(package_name) == package_name \in env.importable

\* main, lines 178-179: the version check and its exit.
main_check_python_version ==
    /\ pc = "main"
    /\ LET ok == check_python_version(env.version)
           ev == Event("check_python_version", "", PyBool(ok))
       IN  /\ run' = [run EXCEPT !.events = Append(@, ev),
                                 !.exit_status = IF ok THEN @ ELSE 1]
           /\ pc' = IF ok THEN "check_virtual_environment" ELSE "exited"
    /\ UNCHANGED <<env, engine_vars>>

\* main, lines 182-186.
main_check_virtual_environment ==
    /\ pc = "check_virtual_environment"
    /\ LET venv_active == check_virtual_environment(env.venv)
           ev == Event("check_virtual_environment", "", PyBool(venv_active))
       IN  /\ run' = [run EXCEPT !.events = Append(@, ev)]
           /\ pc' = IF venv_active THEN "create_requirements_file" ELSE "input_continue"
    /\ UNCHANGED <<env, engine_vars>>

\* main, lines 188-191: the prompt shown when no virtual environment is active.
main_continue_without_venv ==
    /\ pc = "input_continue"
    /\ \E answer \in Answers :
        LET response == Response(answer)
            asked == Append(run.events, Event("input", "Continue without virtual environment?", response))
        IN  IF ~SaidYes(response)
            THEN /\ run' = [run EXCEPT !.response = response,
                                       !.events = Append(asked, Event("print_setup_instructions", "", "None")),
                                       !.exit_status = 0]
                 /\ pc' = "exited"
            ELSE /\ run' = [run EXCEPT !.response = response, !.events = asked]
                 /\ pc' = "create_requirements_file"
    /\ UNCHANGED <<env, engine_vars>>

\* create_requirements_file: the file after the call.
RequirementsAfterOverwrite(requirements) == "generated"
RequirementsAfter(requirements) ==
    IF requirements = "absent" THEN "generated" ELSE requirements

\* main, line 194.
main_create_requirements_file ==
    /\ pc = "create_requirements_file"
    /\ env' = [env EXCEPT !.requirements = RequirementsAfter(@)]
    /\ run' = [run EXCEPT !.events = Append(@, Event("create_requirements_file", "", "None"))]
    /\ pc' = "check_and_install_packages"
    /\ UNCHANGED engine_vars

\* check_and_install_packages, lines 89-96: one check per required package.
RECURSIVE ScanEvents(_)
ScanEvents(packages) ==
    IF packages = <<>> THEN <<>>
    ELSE <<Event("check_package_installed", Head(packages).package_name,
                 PyBool(check_package_installed(Head(packages).package_name)))>>
         \o ScanEvents(Tail(packages))

IsMissing(package) == ~check_package_installed(package.package_name)

\* check_and_install_packages, lines 83-98 and 133-135.
check_and_install_packages_scan ==
    /\ pc = "check_and_install_packages"
    /\ LET missing_packages == SelectSeq(REQUIRED_PACKAGES, IsMissing)
           scanned == run.events \o ScanEvents(REQUIRED_PACKAGES)
       IN  IF missing_packages # <<>>
           THEN /\ run' = [run EXCEPT !.missing_packages = missing_packages, !.events = scanned]
                /\ pc' = "input_install"
           ELSE /\ run' = [run EXCEPT !.events = scanned, !.packages_ready = "True"]
                /\ pc' = "packages_ready"
    /\ UNCHANGED <<env, engine_vars>>

\* check_and_install_packages, lines 104-108 and 128-132.
check_and_install_packages_prompt ==
    /\ pc = "input_install"
    /\ \E answer \in Answers :
        LET response == Response(answer)
            asked == Append(run.events, Event("input", "Would you like to install missing packages?", response))
        IN  IF SaidYes(response)
            THEN /\ run' = [run EXCEPT !.install_response = response, !.events = asked,
                                       !.to_install = run.missing_packages]
                 /\ pc' = "install_package"
            ELSE /\ run' = [run EXCEPT !.install_response = response, !.events = asked,
                                       !.packages_ready = "False"]
                 /\ pc' = "packages_ready"
    /\ UNCHANGED <<env, engine_vars>>

\* The packages the loop of lines 110-116 still has to visit after one iteration.
ToInstallAfterStopOnFailure(to_install, installed) == IF installed THEN Tail(to_install) ELSE <<>>
ToInstallAfter(to_install, installed) == Tail(to_install)

\* check_and_install_packages, lines 110-116: one iteration; pip succeeds or
\* fails (install_package, lines 73-79).
check_and_install_packages_install ==
    /\ pc = "install_package"
    /\ run.to_install # <<>>
    /\ \E installed \in BOOLEAN :
        LET package == Head(run.to_install)
            ev == Event("install_package", package.package_spec, PyBool(installed))
        IN  /\ run' = [run EXCEPT !.events = Append(@, ev),
                                  !.to_install = ToInstallAfter(@, installed),
                                  !.failed_installs =
                                      IF installed THEN @ ELSE Append(@, package.package_name)]
            /\ env' = [env EXCEPT !.importable =
                                      IF installed THEN @ \cup {package.package_name} ELSE @]
    /\ UNCHANGED <<pc, engine_vars>>

\* check_and_install_packages, lines 118-127.
check_and_install_packages_result ==
    /\ pc = "install_package"
    /\ run.to_install = <<>>
    /\ run' = [run EXCEPT !.packages_ready = PyBool(run.failed_installs = <<>>)]
    /\ pc' = "packages_ready"
    /\ UNCHANGED <<env, engine_vars>>

\* main, lines 199-210 and 219-223.
main_packages_ready ==
    /\ pc = "packages_ready"
    /\ IF run.packages_ready = "True"
       THEN LET jupyter == check_package_installed("jupyter")
                ev == Event("check_package_installed", "jupyter", PyBool(jupyter))
            IN  /\ run' = [run EXCEPT !.events = Append(@, ev)]
                /\ pc' = IF jupyter THEN "input_jupyter" ELSE "exited"
       ELSE /\ run' = [run EXCEPT !.events = Append(@, Event("print_setup_instructions", "", "None")),
                                  !.exit_status = 1]
            /\ pc' = "exited"
    /\ UNCHANGED <<env, engine_vars>>

\* main, lines 211-218.
main_start_jupyter ==
    /\ pc = "input_jupyter"
    /\ \E answer \in Answers :
        LET response == Response(answer)
            asked == Append(run.events, Event("input", "Would you like to start Jupyter Notebook now?", response))
        IN  /\ run' = [run EXCEPT !.response = response,
                                  !.events = IF SaidYes(response)
                                             THEN Append(asked, Event("jupyter notebook", "", "None"))
                                             ELSE asked]
            /\ pc' = "exited"
    /\ UNCHANGED <<env, engine_vars>>

----------------------------------------------------------------------------
\* The aggregation, segmentation and encoding operations on a table.
Init ==
    /\ df \in Tables
    /\ call = [op |-> "none"]
    /\ ret = [nothing |-> TRUE]
    /\ SetupIdle

Next ==
    \/ calculate_acceptance_rate
    \/ compare_segments
    \/ create_frequency_segments
    \/ convert_categorical_to_numeric

Spec == Init /\ [][Next]_vars

\* The quality inspector on a table.
NextQuality ==
    \/ validate_dataframe
    \/ get_data_quality_summary
    \/ handle_missing_values

SpecQuality == Init /\ [][NextQuality]_vars

\* The time analyses on a table whose rows differ in time and expiration.
InitTime ==
    /\ df \in TimeTables
    /\ call = [op |-> "none"]
    /\ ret = [nothing |-> TRUE]
    /\ SetupIdle

NextTime ==
    \/ analyze_time_patterns
    \/ analyze_time_expiration

SpecTime == InitTime /\ [][NextTime]_vars

\* Every operation of the engine on a table of fewer than MaxRows rows.
InitEngine ==
    /\ df \in SmallTables
    /\ call = [op |-> "none"]
    /\ ret = [nothing |-> TRUE]
    /\ SetupIdle

NextEngine ==
    \/ validate_dataframe
    \/ get_data_quality_summary
    \/ handle_missing_values
    \/ calculate_acceptance_rate
    \/ compare_segments
    \/ create_frequency_segments
    \/ analyze_time_expiration
    \/ analyze_time_patterns
    \/ convert_categorical_to_numeric

SpecEngine == InitEngine /\ [][NextEngine]_vars

\* The operations that derive an acceptance rate, on a table of fewer than
\* MaxRows rows that differ in time and expiration.
InitSites ==
    /\ df \in SmallTimeTables
    /\ call = [op |-> "none"]
    /\ ret = [nothing |-> TRUE]
    /\ SetupIdle

NextSites ==
    \/ calculate_acceptance_rate
    \/ compare_segments
    \/ analyze_time_expiration
    \/ analyze_time_patterns

SpecSites == InitSites /\ [][NextSites]_vars

\* The setup script, started in each environment.
InitSetup ==
    /\ df = <<>>
    /\ call = [op |-> "none"]
    /\ ret = [nothing |-> TRUE]
    /\ pc = "main"
    /\ env \in Environments
    /\ run = StartRun

NextSetup ==
    \/ main_check_python_version
    \/ main_check_virtual_environment
    \/ main_continue_without_venv
    \/ main_create_requirements_file
    \/ check_and_install_packages_scan
    \/ check_and_install_packages_prompt
    \/ check_and_install_packages_install
    \/ check_and_install_packages_result
    \/ main_packages_ready
    \/ main_start_jupyter

SpecSetup == InitSetup /\ [][NextSetup]_vars

----------------------------------------------------------------------------
\* Properties of calculate_acceptance_rate

\* The number of rows of a table whose target is 1.
AcceptedCount(rows) == Cardinality({i \in 1..Len(rows) : rows[i].Y = 1})

RECURSIVE SumTotal(_)
SumTotal(stats) ==
    IF stats = <<>> THEN 0 ELSE Head(stats).Total + SumTotal(Tail(stats))

RECURSIVE SumAccepted(_)
SumAccepted(stats) ==
    IF stats = <<>> THEN 0 ELSE Head(stats).Accepted + SumAccepted(Tail(stats))

\* rate is 100 * a / t rounded to 2 decimals (to the nearest hundredth, an
\* exact half to the even one); the float quotient 0 / 0 is NaN.
IsRoundedPct(rate, a, t) ==
    IF t = 0 THEN rate.nan
    ELSE /\ ~rate.nan
         /\ 2 * Abs(rate.v * t - 10000 * a) <= t
         /\ 2 * Abs(rate.v * t - 10000 * a) = t => rate.v % 2 = 0

\* The call returned a result.
Returned == "raised" \notin DOMAIN ret

Aggregated == call.op = "calculate_acceptance_rate" /\ Returned
Grouped == Aggregated /\ call.group_by.kind # "None"
Ungrouped == Aggregated /\ call.group_by.kind = "None"

\* C1: for every table and every group key, the Totals of the returned rows
\* add up to the number of rows of the table and the Accepted values add up
\* to the sum of the target column.
C1_GroupSumsCoverTable ==
    Grouped =>
        /\ SumTotal(ret.stats) = Len(df)
        /\ SumAccepted(ret.stats) = AcceptedCount(df)

\* C2: every returned row, grouped or ungrouped, has Total = Accepted +
\* Declined and a rate equal to Accepted / Total * 100 rounded to 2 decimals.
C2_RowArithmetic ==
    Aggregated =>
        \A k \in 1..Len(ret.stats) :
            /\ ret.stats[k].Total = ret.stats[k].Accepted + ret.stats[k].Declined
            /\ IsRoundedPct(ret.stats[k].Rate, ret.stats[k].Accepted, ret.stats[k].Total)

\* Target [1, 0, 1] grouped by coupon [Bar, Bar, Coffee House]: Bar has
\* Total 2, Accepted 1, rate 50.0; Coffee House has Total 1, Accepted 1,
\* rate 100.0.
C2_Witness ==
    /\ Grouped
    /\ call.group_by = [kind |-> "str", name |-> "coupon"]
    /\ Len(df) = 3
    /\ <<df[1].Y, df[2].Y, df[3].Y>> = <<1, 0, 1>>
    /\ <<df[1].coupon, df[2].coupon, df[3].coupon>> = <<"Bar", "Bar", "Coffee House">>
    /\ Len(ret.stats) = 2
    /\ ret.stats[1] = [key |-> <<"Bar">>, Total |-> 2, Accepted |-> 1, Declined |-> 1,
                 Rate |-> Num(5000)]
    /\ ret.stats[2] = [key |-> <<"Coffee House">>, Total |-> 1, Accepted |-> 1,
                 Declined |-> 0, Rate |-> Num(10000)]

\* C3: with group_by omitted the result is exactly one row, whose Total is
\* the number of rows of the table and whose Accepted is the sum of the
\* target column.
C3_UngroupedSingleRow ==
    Ungrouped =>
        /\ Len(ret.stats) = 1
        /\ ret.stats[1].Total = Len(df)
        /\ ret.stats[1].Accepted = AcceptedCount(df)

\* A whole table of 3 rows, 2 of them accepted: one row, rate 66.67.
C3_Witness ==
    /\ Ungrouped
    /\ Len(df) = 3
    /\ AcceptedCount(df) = 2
    /\ ret.stats = <<[key |-> <<>>, Total |-> 3, Accepted |-> 2, Declined |-> 1,
                Rate |-> Num(6667)]>>

\* C4: with group_by given there is exactly one returned row per distinct
\* group-key value combination that occurs in the table and no other row:
\* no row has Total = 0 and no two rows carry the same combination.
C4_OneRowPerCombination ==
    Grouped =>
        LET names == AsList(call.group_by)
            occurring == {KeyOf(df[i], names) : i \in 1..Len(df)}
        IN  /\ {ret.stats[k].key : k \in 1..Len(ret.stats)} = occurring
            /\ Len(ret.stats) = Cardinality(occurring)
            /\ \A k \in 1..Len(ret.stats) : ret.stats[k].Total > 0
----------------------------------------------------------------------------
\* Properties of compare_segments

Compared == call.op = "compare_segments" /\ Returned

\* The rows a predicate selects (want = TRUE) or rejects (want = FALSE).
Selected(want) == {i \in 1..Len(df) : call.condition[i] = want}

\* C5: the result has exactly two rows, the target segment first and the
\* others second; the target row counts exactly the rows the predicate
\* selects and the others row exactly the rows it rejects, so the Totals add
\* up to the number of rows of the table and the Accepted values to the sum
\* of the target column.
C5_SegmentsPartitionTable ==
    Compared =>
        /\ Len(ret.result_df) = 2
        /\ ret.result_df[1].Segment = "Target Group"
        /\ ret.result_df[2].Segment = "All Others"
        /\ ret.result_df[1].Total = Cardinality(Selected(TRUE))
        /\ ret.result_df[2].Total = Cardinality(Selected(FALSE))
        /\ ret.result_df[1].Accepted = Cardinality({i \in Selected(TRUE) : df[i].Y = 1})
        /\ ret.result_df[2].Accepted = Cardinality({i \in Selected(FALSE) : df[i].Y = 1})
        /\ ret.result_df[1].Total + ret.result_df[2].Total = Len(df)
        /\ ret.result_df[1].Accepted + ret.result_df[2].Accepted = AcceptedCount(df)

\* A predicate that selects rows 1 and 3 of a 3-row table.
C5_Witness ==
    /\ Compared
    /\ Len(df) = 3
    /\ call.condition = <<TRUE, FALSE, TRUE>>
    /\ <<df[1].Y, df[2].Y, df[3].Y>> = <<1, 1, 0>>
    /\ ret.result_df[1].Total = 2 /\ ret.result_df[1].Accepted = 1
    /\ ret.result_df[2].Total = 1 /\ ret.result_df[2].Accepted = 1

\* C6: Rate Difference (pp) on the target row is the target rate minus the
\* others rate, and the value on the others row is its exact negative.
C6_RateDifferenceOpposite ==
    Compared =>
        /\ ~ret.result_df[1].RateDifference.nan
        /\ ~ret.result_df[2].RateDifference.nan
        /\ ret.result_df[1].RateDifference.v = ret.result_df[1].Rate.v - ret.result_df[2].Rate.v
        /\ ret.result_df[2].RateDifference.v = 0 - ret.result_df[1].RateDifference.v

\* Target rate 50.0, others rate 100.0: differences -50.0 and 50.0.
C6_Witness ==
    /\ Compared
    /\ ret.result_df[1].Rate = Num(5000)
    /\ ret.result_df[2].Rate = Num(10000)
    /\ ret.result_df[1].RateDifference = Num(-5000)
    /\ ret.result_df[2].RateDifference = Num(5000)

\* C7: when the predicate is all-true or all-false (an empty table is both)
\* the zero-row segment's row has Total 0, Accepted 0 and rate 0, a number.
C7_EmptySegmentRateZero ==
    Compared =>
        /\ Selected(TRUE) = {} =>
              /\ ret.result_df[1].Total = 0
              /\ ret.result_df[1].Accepted = 0
              /\ ret.result_df[1].Rate = Num(0)
        /\ Selected(FALSE) = {} =>
              /\ ret.result_df[2].Total = 0
              /\ ret.result_df[2].Accepted = 0
              /\ ret.result_df[2].Rate = Num(0)

\* An all-false predicate on a table of 2 accepted rows: the target row is
\* the zero-row segment, the others row is the whole table.
C7_Witness ==
    /\ Compared
    /\ Len(df) = 2
    /\ call.condition = <<FALSE, FALSE>>
    /\ AcceptedCount(df) = 2
    /\ ret.result_df[1].Total = 0 /\ ret.result_df[1].Rate = Num(0)
    /\ ret.result_df[2].Total = 2 /\ ret.result_df[2].Rate = Num(10000)
    /\ ret.result_df[1].RateDifference = Num(-10000)

----------------------------------------------------------------------------
\* Properties of create_frequency_segments

\* C8: the result has one label per row, in row order; the label is the
\* first key of thresholds, in the caller's key order, whose list contains
\* the row's value, and 'Unknown' when no list contains it.
C8_FirstListedSegment ==
    call.op = "create_frequency_segments" =>
        /\ Len(ret.segments) = Len(df)
        /\ \A i \in 1..Len(df) :
              LET th == call.thresholds
                  hits == {k \in 1..Len(th) : df[i][call.column] \in th[k].values}
              IN  IF hits = {}
                  THEN ret.segments[i] = "Unknown"
                  ELSE \E k \in hits :
                          /\ \A j \in hits : k <= j
                          /\ ret.segments[i] = th[k].segment

\* Column [never, gt8, null] under {'Low': [never, gt8], 'High': [gt8]}:
\* gt8 is listed under both keys and gets the earlier one.
C8_Witness ==
    /\ call.op = "create_frequency_segments"
    /\ call.thresholds = <<[segment |-> "Low", values |-> {"never", "gt8"}],
                           [segment |-> "High", values |-> {"gt8"}]>>
    /\ Len(df) = 3
    /\ <<df[1].Bar, df[2].Bar, df[3].Bar>> = <<"never", "gt8", NA>>
    /\ ret.segments = <<"Low", "Low", "Unknown">>

----------------------------------------------------------------------------
\* Properties of convert_categorical_to_numeric

Converted == call.op = "convert_categorical_to_numeric" /\ Returned

\* The position at which a value is first seen in a column.
FirstSeen(col, v) == CHOOSE i \in 1..Len(col) :
                        col[i] = v /\ \A j \in 1..(i - 1) : col[j] # v

\* C9: the mapping of an encoded column is a bijection between its distinct
\* non-null values and 1..N; a value with a strictly higher count has a
\* strictly lower code, and values with equal counts are coded in the order
\* in which they are first seen in the column.
C9_FrequencyRankCodes ==
    Converted =>
        \A c \in EncodedColumns :
            LET m == ret.value_mappings[c]
                col == ColumnOf(df, c)
                S == DistinctValues(col)
            IN  /\ DOMAIN m = S
                /\ {m[v] : v \in S} = 1..Cardinality(S)
                /\ \A v, w \in S :
                      /\ CountOf(col, v) > CountOf(col, w) => m[v] < m[w]
                      /\ (CountOf(col, v) = CountOf(col, w)
                            /\ FirstSeen(col, v) < FirstSeen(col, w)) => m[v] < m[w]

\* C10: applying the inverse of the mapping to the encoded column gives back
\* the original column row by row: a null is NaN in the encoded column, a
\* non-null value has a code, and that code is the code of no other value.
C10_EncoderRoundTrip ==
    Converted =>
        /\ Len(ret.df_numeric) = Len(df)
        /\ \A c \in EncodedColumns : \A i \in 1..Len(df) :
              LET m == ret.value_mappings[c]
                  enc == ret.df_numeric[i][c]
              IN  IF df[i][c] = NA
                  THEN enc.nan
                  ELSE /\ ~enc.nan
                       /\ {v \in DOMAIN m : m[v] = enc.v} = {df[i][c]}

\* Bar column [null, gt8, never]: the null stays NaN, the two values get the
\* two codes.
C10_Witness ==
    /\ Converted
    /\ Len(df) = 3
    /\ <<df[1].Bar, df[2].Bar, df[3].Bar>> = <<NA, "gt8", "never">>
    /\ ret.df_numeric[1].Bar = NaN
    /\ {ret.df_numeric[2].Bar, ret.df_numeric[3].Bar} = {Num(1), Num(2)}

----------------------------------------------------------------------------
\* Properties of validate_dataframe

Validated == call.op = "validate_dataframe" /\ Returned

\* The columns a list of high-null messages names.
NamedColumns(messages) ==
    {messages[k].column : k \in {j \in 1..Len(messages) : messages[j].kind = "high_null"}}

\* The null percentage of a column is above a limit (exact arithmetic).
PctNullAbove(c, limit) ==
    Len(df) > 0 /\ 100 * NullCount(df, c) > limit * Len(df)

\* C11: the two thresholds are applied independently: a column is named in
\* warnings exactly when its null percentage is above 50 and in errors
\* exactly when it is above 90, so a column above 90 is in both lists.
C11_ThresholdsIndependent ==
    Validated =>
        \A c \in ColumnSet :
            /\ c \in NamedColumns(ret.report.warnings) <=> PctNullAbove(c, 50)
            /\ c \in NamedColumns(ret.report.errors) <=> PctNullAbove(c, 90)

\* C12: is_valid is false exactly when a required column is absent from
\* the table; a column with a high null percentage does not make it false.
C12_ValidIffRequiredPresent ==
    Validated =>
        (ret.report.is_valid = FALSE <=>
            /\ call.required_columns.kind = "list"
            /\ \E j \in 1..Len(call.required_columns.names) :
                   call.required_columns.names[j] \notin ColumnSet)

\* Every required column present and Bar null in all 3 rows: the report is
\* valid although Bar is reported as highly null.
C12_Witness ==
    /\ Validated
    /\ call.required_columns = [kind |-> "list", names |-> <<"Y", "coupon">>]
    /\ Len(df) = 3
    /\ NullCount(df, "Bar") = 3
    /\ ret.report.is_valid = TRUE
    /\ ret.report.missing_data["Bar"].null_percentage = Num(10000)
    /\ "Bar" \in NamedColumns(ret.report.warnings)

\* C13: validate_dataframe and convert_categorical_to_numeric called with
\* None or with an object that is no table raise the invalid-input error
\* and return nothing: no report, no encoded table, no mapping.
C13_InvalidInputRaises ==
    /\ (call.op = "validate_dataframe" /\ call.df # "DataFrame") =>
          /\ ~Returned
          /\ ret.raised = "ValueError"
          /\ DOMAIN ret \cap {"report"} = {}
    /\ (call.op = "convert_categorical_to_numeric" /\ call.data_frame # "DataFrame") =>
          /\ ~Returned
          /\ ret.raised = "ValueError"
          /\ DOMAIN ret \cap {"df_numeric", "value_mappings"} = {}

\* The encoder called with a list instead of a table.
C13_Witness ==
    /\ call.op = "convert_categorical_to_numeric"
    /\ call.data_frame = "list"
    /\ ret = Raised("ValueError", "is not a DataFrame")

----------------------------------------------------------------------------
\* Properties of handle_missing_values and of the engine as a whole

\* C14: no operation of the engine changes the caller's table: across every
\* call the table keeps its rows, columns and values.
C14_InputTableUnchanged == [][df' = df]_vars

\* The fill strategy has replaced a missing Bar cell in the table it
\* returns while the caller's table still has it.
C14_Witness ==
    /\ call.op = "handle_missing_values"
    /\ call.strategy = "fill"
    /\ Len(df) = 2
    /\ df[1].Bar = NA
    /\ ret.df_clean.rows[1].Bar = "never"
    /\ ret.df_clean.rows[2] = df[2]

\* C20: a strategy that is none of report, drop_columns, drop_rows and fill
\* returns, for every threshold and fill_values, a table with the rows,
\* columns and values of the input table, and does not raise.
C20_UnknownStrategyNoOp ==
    (call.op = "handle_missing_values"
        /\ call.strategy \notin {"report", "drop_columns", "drop_rows", "fill"}) =>
        /\ Returned
        /\ ret.df_clean.columns = Columns
        /\ ret.df_clean.rows = df

\* Strategy 'median' with threshold 0.0 and a fill value for Bar on a table
\* with a missing Bar cell: no column or row is dropped, nothing is filled.
C20_Witness ==
    /\ call.op = "handle_missing_values"
    /\ call.strategy = "median"
    /\ call.threshold = 0
    /\ call.fill_values = [kind |-> "dict", items |-> <<[col |-> "Bar", value |-> "never"]>>]
    /\ Len(df) = 2
    /\ df[1].Bar = NA
    /\ ret.df_clean.rows = df

\* C21: drop_rows removes exactly the rows whose fraction of non-null cells
\* over all columns is below 1 - threshold and keeps every other row, in
\* table order, for every threshold, those for which columns *
\* (1 - threshold) is no whole number included.
C21_DropRowsByFraction ==
    (call.op = "handle_missing_values" /\ call.strategy = "drop_rows") =>
        /\ Returned
        /\ ret.df_clean.columns = Columns
        /\ ret.df_clean.rows =
              SelectSeq(df, LAMBDA r :
                  ~(100 * NonNullCells(r) < Len(Columns) * (100 - call.threshold)))

----------------------------------------------------------------------------
\* Properties of the failure cases of calculate_acceptance_rate and
\* compare_segments

\* C18: with group_by omitted and a table of zero rows the call raises an
\* error and returns no row with a NaN rate.
C18_EmptyUngroupedRaises ==
    (call.op = "calculate_acceptance_rate"
        /\ call.group_by.kind = "None"
        /\ call.target_col \in ColumnSet
        /\ Len(df) = 0) => ~Returned

\* C19: when the table has no column of the target's name, both operations
\* raise, for every group_by and every predicate, on an empty table or an
\* empty segment too, and return no result table.
C19_MissingTargetRaises ==
    (call.op \in {"calculate_acceptance_rate", "compare_segments"}
        /\ call.target_col \notin ColumnSet) =>
        /\ ~Returned
        /\ ret.raised = "KeyError"
        /\ DOMAIN ret \cap {"stats", "result_df"} = {}

\* compare_segments on a table of zero rows, both segments empty, with a
\* target column the table does not have.
C19_Witness ==
    /\ call.op = "compare_segments"
    /\ call.target_col = "Accepted"
    /\ Len(df) = 0
    /\ ret = Raised("KeyError", "Accepted")

----------------------------------------------------------------------------
\* Properties of analyze_time_patterns

Patterned == call.op = "analyze_time_patterns" /\ Returned

\* The canonical order of the time buckets.
CanonicalTimes == <<"7AM", "10AM", "2PM", "6PM", "10PM">>

\* The rows of the caller's table that the coupon_type of the call keeps: a
\* coupon_type that is None or empty keeps them all.
Kept == {i \in 1..Len(df) :
            (call.coupon_type.kind = "str" /\ call.coupon_type.name # "")
                => df[i].coupon = call.coupon_type.name}

\* The kept rows of a time bucket, and of a time bucket and an expiration.
KeptAt(t) == {i \in Kept : df[i].time = t}
KeptCell(t, e) == {i \in Kept : df[i].time = t /\ df[i].expiration = e}

\* The number of accepted rows in a set of row positions.
AcceptedIn(S) == Cardinality({i \in S : df[i].Y = 1})

\* C15: by_time has exactly the five rows 7AM, 10AM, 2PM, 6PM, 10PM in that
\* order, whatever buckets the filtered data has and in whatever order; a
\* bucket the filtered data lacks is a row of missing values, a bucket it
\* has is a row with its counts and rate.
C15_ByTimeCanonicalRows ==
    Patterned =>
        LET by_time == ret.results.by_time
        IN  /\ Len(by_time) = 5
            /\ \A k \in 1..5 :
                  /\ by_time[k].label = CanonicalTimes[k]
                  /\ IF KeptAt(CanonicalTimes[k]) = {}
                     THEN /\ by_time[k].Total = NaN
                          /\ by_time[k].Accepted = NaN
                          /\ by_time[k].Rate = NaN
                     ELSE /\ by_time[k].Total = Num(Cardinality(KeptAt(CanonicalTimes[k])))
                          /\ by_time[k].Accepted = Num(AcceptedIn(KeptAt(CanonicalTimes[k])))
                          /\ ~by_time[k].Rate.nan

\* Rows at 10AM, 7AM, 10AM with coupon Bar, Coffee House, Bar, filtered to
\* Bar: the 7AM row comes first and is missing, 10AM has both kept rows.
C15_Witness ==
    /\ Patterned
    /\ call.coupon_type = [kind |-> "str", name |-> "Bar"]
    /\ Len(df) = 3
    /\ <<df[1].time, df[2].time, df[3].time>> = <<"10AM", "7AM", "10AM">>
    /\ <<df[1].coupon, df[2].coupon, df[3].coupon>> = <<"Bar", "Coffee House", "Bar">>
    /\ ret.results.by_time[1] = [label |-> "7AM", Accepted |-> NaN, Total |-> NaN, Rate |-> NaN]
    /\ ret.results.by_time[2].Total = Num(2)
    /\ ret.results.by_time[5].label = "10PM"

\* best_time and worst_time are buckets of the kept rows, best_rate and
\* worst_rate are the rates of those buckets, numbers, and best_rate is not
\* below worst_rate.
BestWorstDrawnFromData ==
    LET bw == ret.best_worst
    IN  /\ KeptAt(bw.best_time) # {}
        /\ KeptAt(bw.worst_time) # {}
        /\ ~bw.best_rate.nan
        /\ ~bw.worst_rate.nan
        /\ IsRoundedPct(bw.best_rate, AcceptedIn(KeptAt(bw.best_time)),
                        Cardinality(KeptAt(bw.best_time)))
        /\ IsRoundedPct(bw.worst_rate, AcceptedIn(KeptAt(bw.worst_time)),
                        Cardinality(KeptAt(bw.worst_time)))
        /\ bw.best_rate.v >= bw.worst_rate.v

\* C16: for every table and coupon_type the call returns best_rate >=
\* worst_rate, with best_time and worst_time buckets that occur in the
\* filtered data and the two rates being those buckets' rates, never a
\* missing value.
C16_BestWorstFromData ==
    Patterned => BestWorstDrawnFromData

\* C16 for a call that keeps at least one row: best_rate >= worst_rate, the
\* two times are buckets of the kept rows and the two rates are their rates.
\* (With no row kept there is no bucket to name: the call raises or returns
\* missing values for the four fields.)
C16_BestWorstFromKeptRows ==
    /\ (Patterned /\ Kept # {}) => BestWorstDrawnFromData
    /\ (call.op = "analyze_time_patterns" /\ Kept = {}) =>
          \/ ~Returned
          \/ ret.best_worst = [best_time |-> NA, worst_time |-> NA,
                               best_rate |-> NaN, worst_rate |-> NaN]

\* Rows at 10AM, 7AM, 10AM with target 1, 0, 1: 10AM is best at 100.0 and
\* 7AM worst at 0.0.
C16_Witness ==
    /\ Patterned
    /\ call.coupon_type = [kind |-> "None"]
    /\ Len(df) = 3
    /\ <<df[1].time, df[2].time, df[3].time>> = <<"10AM", "7AM", "10AM">>
    /\ <<df[1].Y, df[2].Y, df[3].Y>> = <<1, 0, 1>>
    /\ ret.best_worst = [best_time |-> "10AM", worst_time |-> "7AM",
                         best_rate |-> Num(10000), worst_rate |-> Num(0)]

\* The shape of the matrix: the five canonical time rows in order, the same
\* columns in every row, a missing cell where no kept row has the
\* combination.
MatrixShape(matrix) ==
    /\ Len(matrix) = 5
    /\ \A k \in 1..5 :
          /\ matrix[k].label = CanonicalTimes[k]
          /\ DOMAIN matrix[k].cells = {df[i].expiration : i \in Kept}
          /\ \A e \in DOMAIN matrix[k].cells :
                KeptCell(CanonicalTimes[k], e) = {} <=> matrix[k].cells[e].nan

\* C17: the rows of time_expiration_matrix are the canonical times in
\* order, none absent; a cell whose combination occurs in the filtered data
\* holds the mean of the target over those rows times 100; a cell whose
\* combination does not occur is missing.
C17_MatrixCellsAreMeans ==
    Patterned =>
        LET matrix == ret.results.time_expiration_matrix
        IN  /\ MatrixShape(matrix)
            /\ \A k \in 1..5 : \A e \in DOMAIN matrix[k].cells :
                  KeptCell(CanonicalTimes[k], e) # {} =>
                      matrix[k].cells[e].v * Cardinality(KeptCell(CanonicalTimes[k], e))
                          = 10000 * AcceptedIn(KeptCell(CanonicalTimes[k], e))

\* C17 with the rounding the code applies: a cell whose combination occurs
\* holds the mean of the target over those rows times 100, rounded to 2
\* decimals.
C17_MatrixCellsAreRoundedMeans ==
    Patterned =>
        LET matrix == ret.results.time_expiration_matrix
        IN  /\ MatrixShape(matrix)
            /\ \A k \in 1..5 : \A e \in DOMAIN matrix[k].cells :
                  KeptCell(CanonicalTimes[k], e) # {} =>
                      IsRoundedPct(matrix[k].cells[e],
                                   AcceptedIn(KeptCell(CanonicalTimes[k], e)),
                                   Cardinality(KeptCell(CanonicalTimes[k], e)))

\* Three rows at (10AM, 2h), two of them accepted: that cell is 66.67 and
\* the cell (7AM, 2h) is missing.
C17_Witness ==
    /\ Patterned
    /\ call.coupon_type = [kind |-> "None"]
    /\ Len(df) = 3
    /\ \A i \in 1..3 : df[i].time = "10AM" /\ df[i].expiration = "2h"
    /\ AcceptedCount(df) = 2
    /\ ret.results.time_expiration_matrix[2] =
          [label |-> "10AM", cells |-> [e \in {"2h"} |-> Num(6667)]]
    /\ ret.results.time_expiration_matrix[1] =
          [label |-> "7AM", cells |-> [e \in {"2h"} |-> NaN]]

\* The rows whose coupon equals a coupon_type that is given, and every row
\* when none is given.
KeptAsGiven == {i \in 1..Len(df) :
                   call.coupon_type.kind = "str" => df[i].coupon = call.coupon_type.name}

\* Every returned statistic is computed over the rows K and no others:
\* total_records, the totals of by_time and of by_expiration, the cells of
\* the matrix, and the buckets named best and worst.
StatisticsOver(K) ==
    LET r == ret.results
        exps == {df[i].expiration : i \in K}
    IN  /\ r.total_records = Cardinality(K)
        /\ \A k \in 1..Len(r.by_time) :
              LET n == Cardinality({i \in K : df[i].time = r.by_time[k].label})
              IN  IF n = 0 THEN r.by_time[k].Total = NaN
                  ELSE r.by_time[k].Total = Num(n)
        /\ {r.by_expiration[k].label : k \in 1..Len(r.by_expiration)} = exps
        /\ \A k \in 1..Len(r.by_expiration) :
              LET S == {i \in K : df[i].expiration = r.by_expiration[k].label}
              IN  /\ r.by_expiration[k].Total = Num(Cardinality(S))
                  /\ r.by_expiration[k].Accepted = Num(AcceptedIn(S))
        /\ \A k \in 1..Len(r.time_expiration_matrix) :
              LET row == r.time_expiration_matrix[k]
              IN  /\ DOMAIN row.cells = exps
                  /\ \A e \in exps :
                        row.cells[e].nan <=>
                            {i \in K : df[i].time = row.label /\ df[i].expiration = e} = {}
        /\ K # {} =>
              /\ \E i \in K : df[i].time = ret.best_worst.best_time
              /\ \E i \in K : df[i].time = ret.best_worst.worst_time

\* C22: whenever a coupon_type is given, every returned statistic is
\* computed over the rows whose coupon equals it and total_records is their
\* number; the whole table is used only when coupon_type is not given.
C22_FilterByGivenCouponType ==
    Patterned => StatisticsOver(KeptAsGiven)

\* C22 with the test the code makes: a coupon_type that is a non-empty
\* string restricts every statistic to the rows whose coupon equals it; a
\* coupon_type that is None or the empty string leaves the whole table.
C22_FilterByTruthyCouponType ==
    Patterned =>
        /\ StatisticsOver(Kept)
        /\ ret.results.coupon_type =
              IF call.coupon_type.kind = "str" /\ call.coupon_type.name # ""
              THEN call.coupon_type.name ELSE "All"

\* Rows with coupon Bar, Coffee House, Bar filtered to Coffee House: one
\* record, and its time and expiration are the only ones reported.
C22_Witness ==
    /\ Patterned
    /\ call.coupon_type = [kind |-> "str", name |-> "Coffee House"]
    /\ Len(df) = 3
    /\ <<df[1].coupon, df[2].coupon, df[3].coupon>> = <<"Bar", "Coffee House", "Bar">>
    /\ <<df[1].time, df[2].time, df[3].time>> = <<"7AM", "10AM", "7AM">>
    /\ ret.results.total_records = 1
    /\ ret.results.by_time[1].Total = NaN
    /\ ret.results.by_time[2].Total = Num(1)
    /\ ret.best_worst.best_time = "10AM"

\* The time buckets of the kept rows, and the rate by_time reports for one.
KeptBuckets == {df[i].time : i \in Kept}
RateOf(t) ==
    LET by_time == ret.results.by_time
    IN  by_time[CHOOSE k \in 1..Len(by_time) : by_time[k].label = t].Rate.v

\* The buckets that hold the largest and the smallest rate.
BestBuckets == {t \in KeptBuckets : \A u \in KeptBuckets : RateOf(t) >= RateOf(u)}
WorstBuckets == {t \in KeptBuckets : \A u \in KeptBuckets : RateOf(t) <= RateOf(u)}

\* The first kept row of a bucket, and the place of a bucket in the
\* canonical order.
FirstRow(t) == CHOOSE i \in KeptAt(t) : \A j \in KeptAt(t) : i <= j
CanonicalPlace(t) == CHOOSE k \in 1..5 : CanonicalTimes[k] = t

\* C23: when several buckets of the data share the largest (smallest) rate,
\* best_time (worst_time) is the tied bucket that occurs first in the row
\* order of the data.
C23_TiesByRowOrder ==
    (Patterned /\ Kept # {}) =>
        /\ ret.best_worst.best_time \in BestBuckets
        /\ \A t \in BestBuckets : FirstRow(ret.best_worst.best_time) <= FirstRow(t)
        /\ ret.best_worst.worst_time \in WorstBuckets
        /\ \A t \in WorstBuckets : FirstRow(ret.best_worst.worst_time) <= FirstRow(t)

\* C23 with the order the code uses: among the buckets that share the
\* largest (smallest) rate, best_time (worst_time) is the one that comes
\* first in the canonical order 7AM, 10AM, 2PM, 6PM, 10PM.
C23_TiesByCanonicalOrder ==
    (Patterned /\ Kept # {}) =>
        /\ ret.best_worst.best_time \in BestBuckets
        /\ \A t \in BestBuckets :
              CanonicalPlace(ret.best_worst.best_time) <= CanonicalPlace(t)
        /\ ret.best_worst.worst_time \in WorstBuckets
        /\ \A t \in WorstBuckets :
              CanonicalPlace(ret.best_worst.worst_time) <= CanonicalPlace(t)

\* A 10AM row followed by a 7AM row, both accepted: the two buckets tie at
\* 100.0 and 7AM, the later one in the data, is both best and worst.
C23_Witness ==
    /\ Patterned
    /\ call.coupon_type = [kind |-> "None"]
    /\ Len(df) = 2
    /\ <<df[1].time, df[2].time>> = <<"10AM", "7AM">>
    /\ <<df[1].Y, df[2].Y>> = <<1, 1>>
    /\ ret.results.by_time[1].Rate = Num(10000)
    /\ ret.results.by_time[2].Rate = Num(10000)
    /\ ret.best_worst.best_time = "7AM"
    /\ ret.best_worst.worst_time = "7AM"

----------------------------------------------------------------------------
\* Further properties of convert_categorical_to_numeric and of
\* calculate_acceptance_rate

\* C25: a column that is already numeric or boolean comes back unchanged,
\* the same values in the same rows, and has no mapping: the keys of the
\* mapping dictionary are exactly the columns that are neither.
C25_NumericColumnsPassThrough ==
    Converted =>
        /\ Len(ret.df_numeric) = Len(df)
        /\ \A i \in 1..Len(df) : ret.df_numeric[i].Y = df[i].Y
        /\ DOMAIN ret.value_mappings = {"time", "coupon", "expiration", "Bar"}

\* Target [1, 0, 1]: the target column of the encoded table is [1, 0, 1]
\* while coupon has become codes.
C25_Witness ==
    /\ Converted
    /\ Len(df) = 3
    /\ <<df[1].Y, df[2].Y, df[3].Y>> = <<1, 0, 1>>
    /\ <<ret.df_numeric[1].Y, ret.df_numeric[2].Y, ret.df_numeric[3].Y>> = <<1, 0, 1>>
    /\ ~ret.df_numeric[1].coupon.nan
    /\ "Y" \notin DOMAIN ret.value_mappings

\* One key is before another in natural sort order: at the first column
\* where they differ it has the smaller string.
KeyBefore(a, b) ==
    \E j \in 1..Len(a) :
        /\ a[j] # b[j]
        /\ Rank(a[j]) < Rank(b[j])
        /\ \A i \in 1..(j - 1) : a[i] = b[i]

\* C26: with group_by given the returned rows are in ascending natural sort
\* order of the group key, lexicographic over the key columns, whatever the
\* order of the rows of the table.
C26_RowsInKeyOrder ==
    Grouped =>
        \A k, l \in 1..Len(ret.stats) :
            k < l => KeyBefore(ret.stats[k].key, ret.stats[l].key)

\* Rows with (coupon, Bar) = (Coffee House, gt8), (Bar, never), (Bar, gt8)
\* grouped by [coupon, Bar]: the rows come back as (Bar, gt8), (Bar, never),
\* (Coffee House, gt8).
C26_Witness ==
    /\ Grouped
    /\ call.group_by = [kind |-> "list", names |-> <<"coupon", "Bar">>]
    /\ Len(df) = 3
    /\ <<df[1].coupon, df[2].coupon, df[3].coupon>> = <<"Coffee House", "Bar", "Bar">>
    /\ <<df[1].Bar, df[2].Bar, df[3].Bar>> = <<"gt8", "never", "gt8">>
    /\ <<ret.stats[1].key, ret.stats[2].key, ret.stats[3].key>> =
          <<(<<"Bar", "gt8">>), (<<"Bar", "never">>), (<<"Coffee House", "gt8">>)>>

----------------------------------------------------------------------------
\* Properties across the operations

\* A row of a table of stats keyed by <<t>> has the counts and the rate of a
\* by_time row of analyze_time_patterns.
SameBucket(stats_row, by_time_row) ==
    /\ stats_row.key = <<by_time_row.label>>
    /\ by_time_row.Accepted = Num(stats_row.Accepted)
    /\ by_time_row.Total = Num(stats_row.Total)
    /\ by_time_row.Rate = stats_row.Rate

\* Every row of a table of stats has its like among the rows of by_time,
\* and every by_time row of a bucket that occurs its like among the stats.
SameBuckets(stats, by_time) ==
    /\ \A k \in 1..Len(stats) : \E j \in 1..Len(by_time) : SameBucket(stats[k], by_time[j])
    /\ \A j \in 1..Len(by_time) :
          ~by_time[j].Total.nan => \E k \in 1..Len(stats) : SameBucket(stats[k], by_time[j])

\* C24: the same statistic is derived identically at every call site.  On a
\* whole table the by_time of analyze_time_patterns, the rows of
\* calculate_acceptance_rate(group_by='time') and the by_time of
\* analyze_time_expiration have, bucket by bucket, the same Accepted, Total
\* and rate; and a compare_segments row of a segment that has rows is the
\* ungrouped calculate_acceptance_rate of those rows.
C24_SameStatisticAtEverySite ==
    /\ (Patterned /\ call.coupon_type.kind = "None") =>
          /\ SameBuckets(AcceptanceRate(df, [kind |-> "str", name |-> "time"]),
                         ret.results.by_time)
          /\ SameBuckets(TimeExpiration(df).by_time, ret.results.by_time)
    /\ (Grouped /\ call.group_by = [kind |-> "str", name |-> "time"]) =>
          SameBuckets(ret.stats, TimePatterns(df, [kind |-> "None"]).by_time)
    /\ call.op = "analyze_time_expiration" =>
          SameBuckets(ret.time_results.by_time, TimePatterns(df, [kind |-> "None"]).by_time)
    /\ Compared =>
          \A k \in 1..2 :
              LET segment == BoolIndex(df, IF k = 1 THEN call.condition
                                          ELSE Invert(call.condition))
                  whole == AcceptanceRate(segment, [kind |-> "None"])[1]
              IN  segment # <<>> =>
                      /\ ret.result_df[k].Total = whole.Total
                      /\ ret.result_df[k].Accepted = whole.Accepted
                      /\ ret.result_df[k].Declined = whole.Declined
                      /\ ret.result_df[k].Rate = whole.Rate

\* A 10AM row that is accepted and a 7AM row that is not: by_time has 7AM
\* at 0.0 and 10AM at 100.0, as the grouped aggregation has.
C24_Witness ==
    /\ Patterned
    /\ call.coupon_type = [kind |-> "None"]
    /\ Len(df) = 2
    /\ <<df[1].time, df[2].time>> = <<"10AM", "7AM">>
    /\ <<df[1].Y, df[2].Y>> = <<1, 0>>
    /\ ret.results.by_time[1].Rate = Num(0)
    /\ ret.results.by_time[2].Rate = Num(10000)
    /\ AcceptanceRate(df, [kind |-> "str", name |-> "time"])[1] =
          [key |-> <<"10AM">>, Total |-> 1, Accepted |-> 1, Declined |-> 0,
           Rate |-> Num(10000)]

-----------------------------------------------------------------------------
\* The setup script.

InstallPrompt == "Would you like to install missing packages?"
ContinuePrompt == "Continue without virtual environment?"

Steps(step) == {i \in DOMAIN run.events : run.events[i].step = step}

\* The positions in run.events of the scan of lines 89-96: the checks made
\* before the function asks or returns.
Scanned == {i \in Steps("check_package_installed") :
              \A j \in Steps("input") : run.events[j].arg = ContinuePrompt \/ i < j}

\* The required packages the scan found missing.
FoundMissing ==
    {k \in DOMAIN REQUIRED_PACKAGES :
        \E i \in Scanned : /\ run.events[i].arg = REQUIRED_PACKAGES[k].package_name
                           /\ run.events[i].result = "False"}

\* The positions at which the user was asked whether to install, and said y or yes.
Agreed == {i \in Steps("input") : /\ run.events[i].arg = InstallPrompt
                                  /\ run.events[i].result \in {"y", "yes"}}

\* The positions of the pip invocations for the k-th required package.
Installs(k) == {j \in Steps("install_package") :
                    run.events[j].arg = REQUIRED_PACKAGES[k].package_spec}

FunctionReturned == run.packages_ready # "unset"

\* C27: in check_and_install_packages pip install is invoked only for a package
\* the scan found missing and only after the user answered y or yes to the
\* install prompt; once the function has returned after such an answer every
\* missing package has been attempted, whether or not an earlier install
\* failed; and the function returns True exactly when no package was missing,
\* or the user agreed and every attempted install succeeded (so it returns
\* False when the user declines or an install fails).
C27_InstallOnlyMissingAfterYes ==
    /\ \A j \in Steps("install_package") :
          /\ \E k \in FoundMissing : j \in Installs(k)
          /\ \E i \in Agreed : i < j
    /\ FunctionReturned /\ Agreed # {} =>
          \A k \in FoundMissing : Cardinality(Installs(k)) = 1
    /\ FunctionReturned =>
          (run.packages_ready = "True" <=>
              \/ FoundMissing = {}
              \/ /\ Agreed # {}
                 /\ \A j \in Steps("install_package") : run.events[j].result = "True")
    /\ FunctionReturned /\ FoundMissing # {} /\ Agreed = {} => run.packages_ready = "False"

\* C27's case: the user agreed, an install failed, a later one was still
\* attempted and succeeded, and the function returned False.
C27_Witness ==
    /\ FunctionReturned
    /\ run.packages_ready = "False"
    /\ \E i, j \in Steps("install_package") :
          /\ i < j
          /\ run.events[i].result = "False"
          /\ run.events[j].result = "True"


\* The steps of main the order is stated for.
StepOrder == <<"check_python_version", "check_virtual_environment",
               "create_requirements_file", "check_package_installed">>

\* Every occurrence of a later step follows an occurrence of each earlier step,
\* and no earlier step occurs after a later one.
StepsInOrder ==
    \A a, b \in DOMAIN StepOrder :
        a < b =>
            /\ \A j \in Steps(StepOrder[b]) : \E i \in Steps(StepOrder[a]) : i < j
            /\ \A i \in Steps(StepOrder[a]), j \in Steps(StepOrder[b]) : i < j

\* The interpreter is older than Python 3.7.
Incompatible == env.version[1] < 3 \/ (env.version[1] = 3 /\ env.version[2] < 7)

\* The user was asked whether to continue without a virtual environment and
\* answered something other than y or yes.
DeclinedToContinue ==
    \E i \in Steps("input") : /\ run.events[i].arg = ContinuePrompt
                              /\ run.events[i].result \notin {"y", "yes"}

NothingAfterVenvCheck ==
    /\ Steps("create_requirements_file") = {}
    /\ Steps("check_package_installed") = {}
    /\ Steps("install_package") = {}
    /\ env.requirements # "generated"

C28_Steps ==
    /\ StepsInOrder
    /\ \A j \in Steps("install_package") : \E i \in Steps("check_package_installed") : i < j
    /\ Incompatible /\ pc # "main" =>
          /\ pc = "exited"
          /\ run.exit_status = 1
          /\ Len(run.events) = 1
          /\ NothingAfterVenvCheck
    /\ DeclinedToContinue =>
          /\ ~check_virtual_environment(env.venv)
          /\ pc = "exited"
          /\ run.exit_status = 0
          /\ NothingAfterVenvCheck
    /\ run.packages_ready = "False" /\ pc = "exited" => run.exit_status = 1
    /\ run.packages_ready = "False" => pc \in {"packages_ready", "exited"}

\* No step replaces a requirements.txt that is already there.
RequirementsKept == env.requirements # "absent" => env'.requirements = env.requirements

\* C28: main runs the version check, the virtual-environment check, the
\* creation of the requirements file and the package check in that order; an
\* incompatible Python version exits with status 1 before any other step; with
\* no virtual environment and an answer other than y or yes the run exits with
\* status 0 before the requirements file is created or a package is checked or
\* installed; a requirements.txt that exists is never overwritten; and the run
\* exits with status 1 whenever the package check returned False.
C28_MainStepsInOrder == []C28_Steps /\ [][RequirementsKept]_vars

\* C28's case: the user continued without a virtual environment, the
\* requirements file was already there when create_requirements_file ran, the
\* package check returned False and the run has exited.
C28_Witness ==
    /\ pc = "exited"
    /\ run.packages_ready = "False"
    /\ env.requirements = "existing"
    /\ Steps("create_requirements_file") # {}
    /\ \E i \in Steps("input") : /\ run.events[i].arg = ContinuePrompt
                                 /\ run.events[i].result = "yes"

====
